---- MODULE Spec2Model ----
(***************************************************************************)
(* The tick/frame engine of astratheloria: Engine (src/src/engine.ts and   *)
(* the counter variant src/unnamed/part_000), Entity (src/src/entity.ts)   *)
(* and the frame driver createLoop / turn (src/src/loop.ts).               *)
(*                                                                         *)
(* JavaScript runs one job at a time, so one action of the model is one    *)
(* run-to-completion segment of the code: from a call or a resumed await   *)
(* up to the next await.  External code (the caller of turn, the commit    *)
(* callback, game logic) runs between those segments.                      *)
(***************************************************************************)
EXTENDS Integers, Sequences, FiniteSets, TLC

\* ------------------------------------------------------------------ bounds
\* Engine time is capped so that the counter engine has finitely many states.
MaxTime == 2
\* Fragment objects created in one behaviour (each has its own identity).
MaxFrags == 2

\* ------------------------------------------------------------------ inputs
Entities == {"e1", "e2"}
\* Invocations of turn.next() that may be in flight at the same time.
Calls == {"c1", "c2"}
\* The two Engine classes of the repository.
EngineKinds == {"engine.ts", "part_000"}
\* Trigger names used by the model (loop.ts `Triggers`).
TriggerNames == {"hit"}
\* Registered callbacks: one Loop and one trigger listener per entity.
LoopIds == {"l1", "l2"}
ListenerIds == {"t1", "t2"}
\* What an externally supplied callback does when it is invoked.
LoopEffects == {"nop", "orient", "locate", "event", "throw"}
ListenerEffects == {"nop", "orient", "throw"}
\* The listener is only reached when the loop queues an event, so the other
\* plans name "nop" for it.
Plans ==
  {p \in [Entities -> [loop : LoopEffects, listener : ListenerEffects]] :
     \A e \in Entities : p[e].loop # "event" => p[e].listener = "nop"}

Range(s) == {s[i] : i \in 1..Len(s)}

\* The Sets a caller gives to turn() as `entities` when it does not give
\* engine.entities itself.
GivenSets == {<<"e1">>, <<"e2", "e1">>}

\* ------------------------------------------------------------------ values
\* Fragment.key of a keyless fragment (undefined).
NoKey == [entity |-> "", field |-> ""]
LocationKey(e) == [entity |-> e, field |-> "location"]
OrientationKey(e) == [entity |-> e, field |-> "orientation"]
Keys == {LocationKey(e) : e \in Entities} \cup {OrientationKey(e) : e \in Entities}

\* A Fragment object; id is its object identity.
Fragment(id, key, frame, value) ==
  [id |-> id, key |-> key, frame |-> frame, value |-> value]

\* The arrays (Vector3DArray) behind the Vector3D and Orientation3D objects of
\* the entity that is called directly: the one of its #location, the one of
\* its #orientation, and the one of the value a caller passes to a setter.
ArrayIds == {"location", "orientation", "given"}
\* A Vector3D or Orientation3D object: a reference to its private array.
ValueObject(array) == [array |-> array]
\* No object (undefined).
NoObject == [array |-> ""]
\* Vector3D.copy / Orientation3D.copy: new Vector3D(this.#vector), a new object
\* constructed around the same array (the constructor stores the array it is
\* given).
Vector3DCopy(v) == ValueObject(v.array)
Orientation3DCopy(o) == ValueObject(o.array)
\* get x / get pitch, set x / set pitch: component 0 of the array.
ReadComponent(heap, v) == heap[v.array][1]
WriteComponent(heap, v, n) == [heap EXCEPT ![v.array][1] = n]

\* No Movement has been constructed.
NoMovement ==
  [steps |-> <<>>, startFrame |-> 0, endFrame |-> 0, aborted |-> FALSE]

\* No Entity.update is in its event drain.  While one is:
\*   ahead    the events of the queue the iterator has yet to reach
\*   current  the iterator holds an event whose runTrigger has yet to run
NoDrain == [active |-> FALSE, ahead |-> 0, current |-> FALSE]

\* Thrown values.
NoError == [type |-> "none"]
Cause(msg) == [type |-> "Error", message |-> msg]

VARIABLES
  engineKind,      \* which Engine class was constructed
  time,            \* Engine #currentTime / #time
  previousTime,    \* Engine #previousTime (engine.ts)
  registry,        \* Engine #entities, in insertion order
  engineFragments, \* Engine #fragments
  ent,             \* per Entity: #fragments, #fragmentsByKey, #events, sleepUntil
  loops,           \* per Entity: #loops, in insertion order
  triggers,        \* per Entity: #triggers, name -> listeners in insertion order
  nextId,          \* identity of the next Fragment object created
  entitiesArg,     \* the `entities` set given to turn(), when it is its own Set
  aliased,         \* TRUE when the caller gave engine.entities as `entities`
  signalAborted,   \* signal.aborted
  call,            \* per invocation of next() in flight: position and locals
  delivered,       \* history: fragments handed to the commit callback so far
  redelivered,     \* history: fragments handed to the commit callback twice
  lost,            \* history: fragments whose commit callback failed
  turnFailed,      \* history: some next() of this turn has rejected
  arrays,          \* contents of the arrays behind the value objects
  probe,           \* the last direct call of a method: what it was given,
                   \* what it invoked, what it threw, what its caller holds
  movement,        \* the Movement object constructed for the entity, if any
  drain            \* the event drain of an Entity.update in progress, if any

vars ==
  <<engineKind, time, previousTime, registry, engineFragments, ent, loops,
    triggers, nextId, entitiesArg, aliased, signalAborted, call, delivered,
    redelivered, lost, turnFailed, arrays, probe, movement, drain>>

\* ------------------------------------------------------------------ Entity
\* A freshly constructed Entity (no sleepUntil attribute given).
NewEntity ==
  [fragments |-> <<>>, fragmentsByKey |-> {}, events |-> <<>>, sleepUntil |-> <<>>]

\* Set.prototype.delete / add on a Set kept in insertion order.
SetDelete(s, x) == SelectSeq(s, LAMBDA y : y # x)
SetAdd(s, x) == IF x \in Range(s) THEN s ELSE Append(s, x)

\* Map.prototype.has / set on #fragmentsByKey (at most one fragment per key).
ByKeyHas(byKey, key) == \E f \in byKey : f.key = key
ByKeySet(byKey, key, frag) == {f \in byKey : f.key # key} \cup {frag}

\* Entity.addFragments for one fragment: the delete is given the incoming
\* fragment, not the one stored under its key.
AddFragment(es, frag) ==
  LET hasKey == frag.key # NoKey
      afterDelete ==
        IF hasKey /\ ByKeyHas(es.fragmentsByKey, frag.key)
        THEN SetDelete(es.fragments, frag)
        ELSE es.fragments
  IN [es EXCEPT
        !.fragments = SetAdd(afterDelete, frag),
        !.fragmentsByKey =
          IF hasKey THEN ByKeySet(es.fragmentsByKey, frag.key, frag)
          ELSE es.fragmentsByKey]

RECURSIVE AddFragments(_, _)
AddFragments(es, frags) ==
  IF frags = <<>> THEN es
  ELSE AddFragments(AddFragment(es, Head(frags)), Tail(frags))

\* A variant of Entity.setOrientation that stamps the frame after the
\* engine's time.
SetOrientationNextFrame(es, e, now, id, value) ==
  AddFragments(es, <<Fragment(id, OrientationKey(e), now + 1, Orientation3DCopy(value))>>)

\* Entity.setOrientation: stages one keyed fragment holding a copy of the value.
SetOrientation(es, e, now, id, value) ==
  AddFragments(es, <<Fragment(id, OrientationKey(e), now, Orientation3DCopy(value))>>)

\* Entity.setLocation: the fragment literal reads `vector`, a name that is
\* bound nowhere, so evaluating it throws a ReferenceError before
\* addFragments is reached; the entity is left as it was.
SetLocation(es, e, now, id, value) ==
  [es |-> es, threw |-> Cause("ReferenceError: vector is not defined")]

\* The sleepUntil setter: undefined deletes the attribute, a number stores it.
SetSleepUntil(es, value) == [es EXCEPT !.sleepUntil = value]

\* The location and orientation getters: a copy() of the private value.
GetLocation == Vector3DCopy(ValueObject("location"))
GetOrientation == Orientation3DCopy(ValueObject("orientation"))

\* Entity.addEvent: a new event object is appended to the Set of its name.
AddEvent(es, name, args) ==
  [es EXCEPT !.events = Append(es.events, [name |-> name, args |-> args])]

\* Entity.clearFragments empties #fragments and leaves #fragmentsByKey alone.
ClearFragments(es) == [es EXCEPT !.fragments = <<>>]

\* Entity.clearEvents.
ClearEvents(es) == [es EXCEPT !.events = <<>>]

\* Keys of the #events Map in insertion order.
RECURSIVE EventNames(_)
EventNames(evs) ==
  IF evs = <<>> THEN <<>>
  ELSE LET rest == EventNames(SelectSeq(Tail(evs), LAMBDA v : v.name # Head(evs).name))
       IN <<Head(evs).name>> \o rest

\* The Set of events stored under one name, in insertion order.
EventsOf(evs, name) == SelectSeq(evs, LAMBDA v : v.name = name)

\* The state threaded through one synchronous run of callbacks: the entities,
\* the next fragment identity, and the exception in flight (ok = FALSE).
\* `calls` lists the callbacks invoked so far; `triggers` are the listener
\* Sets as they stand while the callbacks run, `round` the entries of the Set
\* that runTrigger is iterating.
World(entState, nid) ==
  [ent |-> entState, nid |-> nid, ok |-> TRUE, cause |-> NoError, calls |-> <<>>,
   triggers |-> triggers, round |-> <<>>]

\* Entity.addTrigger: the listener is added to the Set of the name (created
\* when missing); the function it returns deletes the listener from that Set.
AddTrigger(trig, name, listener) == [trig EXCEPT ![name] = SetAdd(@, listener)]
RemoveHandle(trig, name, listener) == [trig EXCEPT ![name] = SetDelete(@, listener)]

\* The listener whose removal handle (the function addTrigger returned) a
\* callback calls.
Unhooked == "t2"

Throw(W, msg) == [W EXCEPT !.ok = FALSE, !.cause = Cause(msg)]

\* One invocation of an external callback on entity e at engine time `now`.
\* "locate" is Entity.setLocation, whose fragment literal reads the unbound
\* name `vector`: it throws before anything is staged.
ApplyEffect(eff, e, W, now) ==
  CASE eff = "nop" -> W
    [] eff = "orient" ->
         [W EXCEPT !.ent[e] = SetOrientation(W.ent[e], e, now, W.nid,
                                             ValueObject("given")),
                   !.nid = W.nid + 1]
    [] eff = "event" -> [W EXCEPT !.ent[e] = AddEvent(W.ent[e], "hit", <<>>)]
    [] eff = "locate" -> Throw(W, "ReferenceError: vector is not defined")
    [] eff = "unhook" ->
         [W EXCEPT !.triggers[e] = RemoveHandle(@, "hit", Unhooked)]
    [] eff = "throw" -> Throw(W, "callback threw")

\* A variant of Entity.runTrigger that empties the fragment bucket before it
\* dispatches.
RECURSIVE RunTriggerClearing(_, _, _, _, _, _)
RunTriggerClearing(e, name, W, plan, now, j) ==
  LET R == IF j = 1
           THEN [W EXCEPT !.round = W.triggers[e][name],
                          !.ent[e] = ClearFragments(@)]
           ELSE W
  IN IF ~R.ok \/ j > Len(R.round) THEN R
     ELSE IF R.round[j] \notin Range(R.triggers[e][name])
          THEN RunTriggerClearing(e, name, R, plan, now, j + 1)
          ELSE LET called == [R EXCEPT !.calls = Append(@, R.round[j])]
               IN RunTriggerClearing(e, name,
                                     ApplyEffect(plan[e].listener, e, called, now),
                                     plan, now, j + 1)

\* Entity.runTrigger from entry j on: a for-of over the live Set of the name.
\* The iterator walks the entries the Set had, in registration order; an
\* entry deleted meanwhile is passed over.  Nothing catches what a listener
\* throws.
RECURSIVE RunTrigger(_, _, _, _, _, _)
RunTrigger(e, name, W, plan, now, j) ==
  LET R == IF j = 1 THEN [W EXCEPT !.round = W.triggers[e][name]] ELSE W
  IN IF ~R.ok \/ j > Len(R.round) THEN R
     ELSE IF R.round[j] \notin Range(R.triggers[e][name])
          THEN RunTrigger(e, name, R, plan, now, j + 1)
          ELSE LET called == [R EXCEPT !.calls = Append(@, R.round[j])]
               IN RunTrigger(e, name, ApplyEffect(plan[e].listener, e, called, now),
                             plan, now, j + 1)

\* A variant of the event drain that empties the queue once it has dispatched
\* the events.
RECURSIVE DrainEventsConsuming(_, _, _, _, _, _)
DrainEventsConsuming(e, W, plan, now, n, i) ==
  LET names == EventNames(W.ent[e].events)
  IN IF ~W.ok THEN W
     ELSE IF n > Len(names) THEN [W EXCEPT !.ent[e] = ClearEvents(@)]
     ELSE IF i > Len(EventsOf(W.ent[e].events, names[n]))
          THEN DrainEventsConsuming(e, W, plan, now, n + 1, 1)
          ELSE DrainEventsConsuming(e, RunTrigger(e, names[n], W, plan, now, 1),
                                    plan, now, n, i + 1)

\* Entity.update, the event drain: for each name of #events, for each event of
\* the name, runTrigger.  Both iterations are over the live collections.
RECURSIVE DrainEvents(_, _, _, _, _, _)
DrainEvents(e, W, plan, now, n, i) ==
  LET names == EventNames(W.ent[e].events)
  IN IF ~W.ok \/ n > Len(names) THEN W
     ELSE IF i > Len(EventsOf(W.ent[e].events, names[n]))
          THEN DrainEvents(e, W, plan, now, n + 1, 1)
          ELSE DrainEvents(e, RunTrigger(e, names[n], W, plan, now, 1),
                           plan, now, n, i + 1)

\* A variant of the Loop callbacks that invokes each of them twice.
RECURSIVE RunLoopsTwice(_, _, _, _, _)
RunLoopsTwice(e, W, plan, now, i) ==
  IF ~W.ok \/ i > Len(loops[e]) THEN W
  ELSE LET called == [W EXCEPT !.calls = Append(@, loops[e][i])]
           once == ApplyEffect(plan[e].loop, e, called, now)
           again == [once EXCEPT !.calls = Append(@, loops[e][i])]
       IN RunLoopsTwice(e, IF once.ok
                           THEN ApplyEffect(plan[e].loop, e, again, now)
                           ELSE once,
                        plan, now, i + 1)

\* Entity.update, the Loop callbacks, in the order of #loops.
RECURSIVE RunLoops(_, _, _, _, _)
RunLoops(e, W, plan, now, i) ==
  IF ~W.ok \/ i > Len(loops[e]) THEN W
  ELSE LET called == [W EXCEPT !.calls = Append(@, loops[e][i])]
       IN RunLoops(e, ApplyEffect(plan[e].loop, e, called, now), plan, now, i + 1)

\* ---------------------------------------------------------------- Movement
\* [...steps].sort((a, b) => a.startFrame - b.startFrame): a stable sort.
InsertStep(step, sorted) ==
  SelectSeq(sorted, LAMBDA s : s.startFrame <= step.startFrame)
    \o <<step>>
    \o SelectSeq(sorted, LAMBDA s : s.startFrame > step.startFrame)

RECURSIVE SortSteps(_)
SortSteps(steps) ==
  IF steps = <<>> THEN <<>>
  ELSE InsertStep(steps[Len(steps)], SortSteps(SubSeq(steps, 1, Len(steps) - 1)))

\* new Movement({entity, engine, steps}): throws on an empty list; startFrame
\* is read from the first sorted step, endFrame from the element of the list
\* AS GIVEN at the last index.
MovementNew(steps) ==
  IF Len(steps) = 0
  THEN [ok |-> FALSE, cause |-> Cause("A movement must have at least one step."),
        movement |-> NoMovement]
  ELSE LET sortedSteps == SortSteps(steps)
       IN [ok |-> TRUE, cause |-> NoError,
           movement |-> [steps |-> sortedSteps,
                         startFrame |-> sortedSteps[1].startFrame,
                         endFrame |-> steps[Len(sortedSteps)].endFrame,
                         aborted |-> FALSE]]

\* Movement.completed.
Completed(m, now) == now >= m.endFrame

\* Array.prototype.find over #steps: the first of the indices that pass the
\* test, 0 for undefined.
FirstIndex(hits) ==
  IF hits = {} THEN 0 ELSE CHOOSE i \in hits : \A j \in hits : i <= j

\* Movement.currentStep, nextStep, previousStep as indices into #steps.
CurrentStepIndex(m, now) ==
  FirstIndex({i \in 1..Len(m.steps) :
                m.steps[i].startFrame <= now /\ m.steps[i].endFrame >= now})
NextStepIndex(m, now) ==
  FirstIndex({i \in 1..Len(m.steps) : m.steps[i].startFrame > now})
PreviousStepIndex(m, now) ==
  FirstIndex({i \in 1..Len(m.steps) : m.steps[i].endFrame < now})

\* Movement.previousSteps, futureSteps: the indices the filter keeps, in order.
PreviousStepsIndices(m, now) ==
  SelectSeq([i \in 1..Len(m.steps) |-> i], LAMBDA i : m.steps[i].endFrame < now)
FutureStepsIndices(m, now) ==
  SelectSeq([i \in 1..Len(m.steps) |-> i], LAMBDA i : m.steps[i].startFrame > now)

\* A variant of the interpolation that adds the scaled target instead of the
\* scaled difference.
InterpolateAddingTarget(from, to, t) ==
  [num |-> from * t.den + to * t.num, den |-> t.den]

\* Vector3D.interpolate on one component, this + (other - this) * t, with
\* t = num / den kept as a fraction; den = 0 stands for the NaN of 0 / 0.
Interpolate(from, to, t) ==
  [num |-> from * t.den + (to - from) * t.num, den |-> t.den]

\* Vector3D.interpolate(other, t), and the static interpolate(from, to, t)
\* that delegates to it: the three components of a new Vector3D, computed
\* from the arrays of the two vectors, which are read only.
Vector3DInterpolate(heap, v, other, t) ==
  [i \in 1..3 |-> Interpolate(heap[v.array][i], heap[other.array][i], t)]

\* A variant of Movement.update without the check of signal.aborted.
MovementUpdateIgnoringAbort(m, es, e, now, nid, heap) ==
  IF Completed(m, now)
  THEN [ok |-> FALSE, cause |-> Cause("Movement is completed."), es |-> es,
        next |-> <<>>, returned |-> <<>>]
  ELSE IF CurrentStepIndex(m, now) = 0
  THEN [ok |-> FALSE, cause |-> Cause("Movement is not running."), es |-> es,
        next |-> <<>>, returned |-> <<>>]
  ELSE LET located == SetLocation(es, e, now, nid, ValueObject("given"))
       IN [ok |-> FALSE, cause |-> located.threw, es |-> located.es,
           next |-> <<>>, returned |-> <<>>]

\* Movement.update.  The fraction is engine.time / currentStep.endFrame and
\* the interpolation starts at the entity's current location; setLocation
\* then throws, before setOrientation and before the return.
MovementUpdate(m, es, e, now, nid, heap) ==
  IF Completed(m, now)
  THEN [ok |-> FALSE, cause |-> Cause("Movement is completed."), es |-> es,
        next |-> <<>>, returned |-> <<>>]
  ELSE IF m.aborted
  THEN [ok |-> FALSE, cause |-> Cause("Movement is aborted."), es |-> es,
        next |-> <<>>, returned |-> <<>>]
  ELSE IF CurrentStepIndex(m, now) = 0
  THEN [ok |-> FALSE, cause |-> Cause("Movement is not running."), es |-> es,
        next |-> <<>>, returned |-> <<>>]
  ELSE LET currentStep == m.steps[CurrentStepIndex(m, now)]
           nextLocation ==
             Interpolate(ReadComponent(heap, GetLocation), currentStep.to,
                         [num |-> now, den |-> currentStep.endFrame])
           located == SetLocation(es, e, now, nid, ValueObject("given"))
       IN IF located.threw # NoError
          THEN [ok |-> FALSE, cause |-> located.threw, es |-> located.es,
                next |-> <<nextLocation>>, returned |-> <<>>]
          ELSE [ok |-> TRUE, cause |-> NoError,
                es |-> SetOrientation(located.es, e, now, nid + 1,
                                      ValueObject("given")),
                next |-> <<nextLocation>>,
                returned |-> <<FutureStepsIndices(m, now) = <<>>>>]

\* Entity.#movement: declared, read by update, assigned by no code of the
\* repository (the constructor and EntityInit take no movement), so it is
\* undefined for every entity.
EntityMovement(e) == <<>>

\* Entity.update, `if (this.#movement && this.#movement.update())
\* this.#movement = undefined`, for a value `owned` of this.#movement (<<>>
\* is undefined): update() is called on whatever movement the field holds,
\* with no test of its state, and what it throws leaves Entity.update.
MovementAdvanceOf(owned, e, W, now) ==
  IF owned = <<>> THEN W
  ELSE LET r == MovementUpdate(owned[1], W.ent[e], e, now, W.nid, arrays)
       IN IF r.ok
          THEN [W EXCEPT !.ent[e] = r.es, !.nid = W.nid + 2,
                         !.calls = Append(@, "movement")]
          ELSE [W EXCEPT !.ok = FALSE, !.cause = r.cause,
                         !.calls = Append(@, "movement")]

\* The movement stage of Entity.update on the entity's own field.
MovementAdvance(e, W, now) == MovementAdvanceOf(EntityMovement(e), e, W, now)

\* A variant of Entity.update without the two checks at its top.
EntityUpdateUnchecked(e, W, plan, now) ==
  LET es == W.ent[e]
  IN IF es.sleepUntil # <<>> /\ now < es.sleepUntil[1] THEN W
     ELSE LET awake == [W EXCEPT !.ent[e].sleepUntil = <<>>]
          IN DrainEvents(e, RunLoops(e, awake, plan, now, 1), plan, now, 1, 1)

\* A variant of Entity.update that wakes up without `this.sleepUntil =
\* undefined`.
EntityUpdateKeepsSleepUntil(e, W, plan, now) ==
  LET es == W.ent[e]
  IN IF es.fragments # <<>> THEN Throw(W, "Entity must not have fragments.")
     ELSE IF es.events # <<>> THEN Throw(W, "Entity must not have events.")
     ELSE IF es.sleepUntil # <<>> /\ now < es.sleepUntil[1] THEN W
     ELSE DrainEvents(e, RunLoops(e, W, plan, now, 1), plan, now, 1, 1)

\* Entity.update: the two checks, the sleep gate, the movement, the loop
\* callbacks, the event drain.
EntityUpdate(e, W, plan, now) ==
  LET es == W.ent[e]
  IN IF es.fragments # <<>> THEN Throw(W, "Entity must not have fragments.")
     ELSE IF es.events # <<>> THEN Throw(W, "Entity must not have events.")
     ELSE IF es.sleepUntil # <<>> /\ now < es.sleepUntil[1] THEN W
     ELSE LET awake == [W EXCEPT !.ent[e].sleepUntil = <<>>]
              moved == MovementAdvance(e, awake, now)
          IN DrainEvents(e, RunLoops(e, moved, plan, now, 1), plan, now, 1, 1)

\* Entity.update up to its event drain: the two checks, the sleep gate, the
\* movement, the loop callbacks.  `draining` tells whether the drain is
\* reached.
EntityUpdateToDrain(e, W, plan, now) ==
  LET es == W.ent[e]
  IN IF es.fragments # <<>>
     THEN [W |-> Throw(W, "Entity must not have fragments."), draining |-> FALSE]
     ELSE IF es.events # <<>>
     THEN [W |-> Throw(W, "Entity must not have events."), draining |-> FALSE]
     ELSE IF es.sleepUntil # <<>> /\ now < es.sleepUntil[1]
     THEN [W |-> W, draining |-> FALSE]
     ELSE LET awake == [W EXCEPT !.ent[e].sleepUntil = <<>>]
              looped == RunLoops(e, MovementAdvance(e, awake, now), plan, now, 1)
          IN [W |-> looped, draining |-> looped.ok]

\* ------------------------------------------------------------------ Engine
\* A variant of Engine.update that stores the new time before it saves the old.
EngineUpdateStalePrevious(kind, now, prev, frags, arg) ==
  IF kind = "engine.ts"
  THEN IF frags # {}
       THEN [ok |-> FALSE, time |-> now, previousTime |-> prev,
             cause |-> Cause("Engine must not have fragments.")]
       ELSE [ok |-> TRUE, time |-> arg, previousTime |-> arg, cause |-> NoError]
  ELSE [ok |-> TRUE, time |-> now + 1, previousTime |-> prev, cause |-> NoError]

\* A variant of Engine.update that checks the bucket after the assignments.
EngineUpdateAssignFirst(kind, now, prev, frags, arg) ==
  IF kind = "engine.ts"
  THEN IF frags # {}
       THEN [ok |-> FALSE, time |-> arg, previousTime |-> now,
             cause |-> Cause("Engine must not have fragments.")]
       ELSE [ok |-> TRUE, time |-> arg, previousTime |-> now, cause |-> NoError]
  ELSE [ok |-> TRUE, time |-> now + 1, previousTime |-> prev, cause |-> NoError]

\* Engine.update(time).  engine.ts: refuse while #fragments is non-empty, else
\* previousTime := currentTime and currentTime := the argument.  part_000:
\* the argument is ignored and #time is incremented; it has no previousTime
\* and never throws.
EngineUpdate(kind, now, prev, frags, arg) ==
  IF kind = "engine.ts"
  THEN IF frags # {}
       THEN [ok |-> FALSE, time |-> now, previousTime |-> prev,
             cause |-> Cause("Engine must not have fragments.")]
       ELSE [ok |-> TRUE, time |-> arg, previousTime |-> now, cause |-> NoError]
  ELSE [ok |-> TRUE, time |-> now + 1, previousTime |-> prev, cause |-> NoError]

\* A variant of Engine.update whose game loop stages a fragment of the Engine.
EngineUpdateFragmentsStaging(kind, frags, arg) ==
  IF kind = "engine.ts" /\ frags # {} THEN frags
  ELSE frags \cup {Fragment(0, NoKey, arg, NoObject)}

\* Engine.update(time), what it does to #fragments: nothing; it reads the
\* size (engine.ts) and the game loop that could stage something is a TODO.
EngineUpdateFragments(kind, frags, arg) == frags

\* A variant of Engine.addEntity that keeps a list instead of a Set.
EngineAddEntityAppending(reg, e) == Append(reg, e)

\* Engine.addEntity / removeEntity: Set add and delete.
EngineAddEntity(reg, e) == SetAdd(reg, e)
EngineRemoveEntity(reg, e) == SetDelete(reg, e)

\* Engine.clearFragments.
EngineClearFragments(frags) == {}

\* ------------------------------------------------------------ frame driver
\* A variant of the iteration that misses the first entity of the set.
DrivenButFirst ==
  LET given == IF aliased THEN registry ELSE entitiesArg
  IN IF given = <<>> THEN given ELSE Tail(given)

\* The `entities` set createLoop iterates: the one given to turn().
Driven == IF aliased THEN registry ELSE entitiesArg

\* A variant of FrameError that is given the same specifier at every stage.
FrameErrorOneTag(specifier, code, cause) ==
  [type |-> "FrameError", specifier |-> "frame", code |-> code,
   errors |-> <<cause>>]

\* FrameError (an AggregateError with a specifier) and the AggregateError
\* turn.next() wraps around whatever loop() rejected with.
FrameError(specifier, code, cause) ==
  [type |-> "FrameError", specifier |-> specifier, code |-> code,
   errors |-> <<cause>>]
TurnError(err) == [type |-> "AggregateError", errors |-> <<err>>]

\* A variant of the entity stage that goes on to the next entity after a throw
\* (the NOTE in createLoop asks whether the loop should continue).
RECURSIVE UpdateAllContinuing(_, _, _, _, _, _)
UpdateAllContinuing(order, W, plan, now, i, updated) ==
  IF i > Len(order) THEN [W |-> W, updated |-> updated, failed |-> <<>>]
  ELSE LET e == order[i]
           W2 == EntityUpdate(e, W, plan, now)
       IN IF ~W2.ok
          THEN LET rest == UpdateAllContinuing(order, [W2 EXCEPT !.ok = TRUE], plan,
                                               now, i + 1, Append(updated, e))
               IN [W |-> [rest.W EXCEPT !.ok = FALSE, !.cause = W2.cause],
                   updated |-> rest.updated, failed |-> <<e>>]
          ELSE UpdateAllContinuing(order, W2, plan, now, i + 1, Append(updated, e))

\* A variant of the entity stage that empties the buckets and queues of the
\* entities it has updated when one of them throws.
RECURSIVE UpdateAllRollingBack(_, _, _, _, _, _)
UpdateAllRollingBack(order, W, plan, now, i, updated) ==
  IF i > Len(order) THEN [W |-> W, updated |-> updated, failed |-> <<>>]
  ELSE LET e == order[i]
           W2 == EntityUpdate(e, W, plan, now)
           cleared == [x \in Entities |->
                         IF x \in Range(Append(updated, e))
                         THEN ClearEvents(ClearFragments(W2.ent[x]))
                         ELSE W2.ent[x]]
       IN IF ~W2.ok
          THEN [W |-> [W2 EXCEPT !.ent = cleared], updated |-> Append(updated, e),
                failed |-> <<e>>]
          ELSE UpdateAllRollingBack(order, W2, plan, now, i + 1, Append(updated, e))

\* createLoop, the entity stage from position i on: update() on each entity of
\* the set in iteration order; the first throw leaves the loop.  `updated`
\* lists the entities whose update() was called, `failed` the one that threw.
RECURSIVE UpdateAll(_, _, _, _, _, _)
UpdateAll(order, W, plan, now, i, updated) ==
  IF i > Len(order) THEN [W |-> W, updated |-> updated, failed |-> <<>>]
  ELSE LET e == order[i]
           W2 == EntityUpdate(e, W, plan, now)
       IN IF ~W2.ok
          THEN [W |-> W2, updated |-> Append(updated, e), failed |-> <<e>>]
          ELSE UpdateAll(order, W2, plan, now, i + 1, Append(updated, e))

\* A variant of the harvest that spreads the engine's fragments only.
HarvestEngineOnly(engFrags, entState, order) == engFrags

\* A variant of the harvest whose Set outlives the tick (declared in
\* createLoop, outside the function it returns).
HarvestAccumulating(engFrags, entState, order) ==
  delivered \cup engFrags \cup UNION {Range(entState[e].fragments) : e \in Range(order)}

\* createLoop, the harvest: one new Set of the engine's fragments and of every
\* driven entity's fragments.
Harvest(engFrags, entState, order) ==
  engFrags \cup UNION {Range(entState[e].fragments) : e \in Range(order)}

\* A variant of the clear in which clearFragments() returns nothing, so that
\* `&&` never reaches clearEvents().
ClearEntityShortCircuit(es) == ClearFragments(es)

\* createLoop: entity.clearFragments() && entity.clearEvents(); clearFragments
\* returns the entity, which is truthy, so clearEvents always runs.
ClearEntity(es) == ClearEvents(ClearFragments(es))

ClearAll(entState, order) ==
  [e \in Entities |->
     IF e \in Range(order) THEN ClearEntity(entState[e]) ELSE entState[e]]

\* A variant in which loop() also gives up when the token is set meanwhile.
EngineStageFailedOrAborted(c) == call[c].engineErr # NoError \/ signalAborted

\* createLoop: the catch clause around `await engine.update(time)` is entered
\* when engine.update threw.
EngineStageFailed(c) == call[c].engineErr # NoError

\* A variant of next() without the check of the token.
SignalCheckMissing(aborted) == FALSE

\* turn.next(): the check of the cancellation token at the top.
SignalCheck(aborted) == aborted

\* The locals of one invocation of next() and of the loop() it calls.
\*   pc          idle | engineAwait | frameAwait | loopSettled | settled
\*   arg         the time next() passed to loop()
\*   engineErr   what engine.update threw, if it threw
\*   updated     entities whose update() this invocation called
\*   failed      the entity whose update() threw
\*   committed   the commit callback was invoked
\*   fragments   the harvested Set
\*   loopError   what loop() rejected with
\*   caught      the error caught by the catch clause of the failed stage
\*   abortedAt   where this invocation was when the token was set, if it was
\*               in flight then
\*   outcome     what next() settled with: none | done | value | error
\*   valueTime   the time of the emitted value
\*   valueFragments  the fragments of the emitted value
\*   error       what next() rejected with
IdleCall ==
  [pc |-> "idle", arg |-> 0, engineErr |-> NoError, updated |-> <<>>,
   failed |-> <<>>, committed |-> FALSE, fragments |-> {},
   loopError |-> NoError, caught |-> NoError, abortedAt |-> "",
   outcome |-> "none", valueTime |-> 0, valueFragments |-> {},
   error |-> NoError]

\* The arrays after construction: the entity was given [0, 0, 0] as location
\* and as orientation.
NewArrays == [a \in ArrayIds |-> <<0, 0, 0>>]

\* What is known of the last direct call.
\*   op       the method called
\*   arg      its numeric argument, if it has one
\*   threw    what it threw (NoError: it returned)
\*   invoked  the callbacks it invoked, in order
\*   held     the object its caller holds afterwards: the return value of a
\*            getter, the argument of a setter
\*   read     component 0 of the entity's value as the getter returned it
\*   next     the location Movement.update computed, if it got that far
\*   returned what Movement.update returned, if it returned
\*   entity   the entity given to addEntity / removeEntity
\*   had      whether the registry held that entity before the call
\*   effect   what the listeners runTrigger was called with do
\*   t        the factor interpolate was given
\*   result   the components of the vector interpolate returned
NoProbe ==
  [op |-> "none", arg |-> 0, threw |-> NoError, invoked |-> <<>>,
   held |-> NoObject, read |-> 0, next |-> <<>>, returned |-> <<>>,
   entity |-> "", had |-> FALSE, effect |-> "", t |-> <<>>, result |-> <<>>]

InFlight(c) == call[c].pc \in {"engineAwait", "frameAwait", "loopSettled"}

\* Continuations run as microtasks, before any other job: once loop() has
\* settled, next() resumes and its caller takes the result before external
\* code runs again.
NoContinuationDue == \A c \in Calls : call[c].pc \notin {"loopSettled", "settled"}
NothingSettled == \A c \in Calls : call[c].pc # "settled"
\* engine.addEntity / removeEntity are called between ticks only.
BetweenTicks == \A c \in Calls : call[c].pc = "idle"

Init ==
  /\ engineKind \in EngineKinds
  /\ time = 0
  /\ previousTime = 0
  /\ registry = <<>>
  /\ engineFragments = {}
  /\ ent = [e \in Entities |-> NewEntity]
  /\ loops = [e \in Entities |-> <<"l1">>]
  /\ triggers = [e \in Entities |-> [n \in TriggerNames |-> <<"t1">>]]
  /\ nextId = 1
  /\ aliased \in BOOLEAN
  /\ entitiesArg \in (IF aliased THEN {<<>>} ELSE GivenSets)
  /\ signalAborted = FALSE
  /\ call = [c \in Calls |-> IdleCall]
  /\ delivered = {}
  /\ redelivered = {}
  /\ lost = {}
  /\ turnFailed = FALSE
  /\ arrays = NewArrays
  /\ probe = NoProbe
  /\ movement = NoMovement
  /\ drain = NoDrain

\* next() is called: the token check, then loop(engine.time) up to its first
\* await, which is the call of engine.update(time).  (The second slot is used
\* only while the first is taken: the two are interchangeable.)
TurnNext(c) ==
  /\ call[c].pc = "idle"
  /\ c = "c2" => InFlight("c1")
  /\ NoContinuationDue
  /\ time < MaxTime
  /\ IF SignalCheck(signalAborted)
     THEN /\ call' = [call EXCEPT ![c] =
                 [IdleCall EXCEPT !.pc = "settled", !.outcome = "done"]]
          /\ UNCHANGED <<time, previousTime, engineFragments>>
     ELSE LET r == EngineUpdate(engineKind, time, previousTime, engineFragments, time)
          IN /\ time' = r.time
             /\ previousTime' = r.previousTime
             /\ engineFragments' =
                  EngineUpdateFragments(engineKind, engineFragments, time)
             /\ call' = [call EXCEPT ![c] =
                    [IdleCall EXCEPT !.pc = "engineAwait", !.arg = time,
                                     !.engineErr = r.cause]]
  /\ UNCHANGED <<engineKind, registry, ent, loops, triggers,
                 nextId, entitiesArg, aliased, signalAborted, delivered,
                 redelivered, lost, turnFailed>>
  /\ UNCHANGED <<arrays, probe, movement, drain>>

\* loop() resumes after `await engine.update(time)`: a rejection becomes a
\* FrameError "engine"; otherwise the entity stage, the harvest, the clears
\* and the call of frame(fragments) run without a break.
LoopResume(c) ==
  /\ call[c].pc = "engineAwait"
  /\ NothingSettled
  /\ IF EngineStageFailed(c)
     THEN /\ call' = [call EXCEPT ![c].pc = "loopSettled",
                        ![c].caught = call[c].engineErr,
                        ![c].loopError = FrameError("engine", "E_UPDATE", call[c].engineErr)]
          /\ UNCHANGED <<ent, nextId, engineFragments, delivered, redelivered>>
     ELSE \E plan \in Plans :
            LET order == Driven
                r == UpdateAll(order, World(ent, nextId), plan, time, 1, <<>>)
                fragments == Harvest(engineFragments, r.W.ent, order)
            IN /\ r.W.nid <= MaxFrags + 1
               /\ nextId' = r.W.nid
               /\ IF ~r.W.ok
                  THEN /\ ent' = r.W.ent
                       /\ call' = [call EXCEPT ![c].pc = "loopSettled",
                                     ![c].updated = r.updated,
                                     ![c].failed = r.failed,
                                     ![c].caught = r.W.cause,
                                     ![c].loopError =
                                        FrameError("entity", "E_UPDATE", r.W.cause)]
                       /\ UNCHANGED <<engineFragments, delivered, redelivered>>
                  ELSE /\ engineFragments' = EngineClearFragments(engineFragments)
                       /\ ent' = ClearAll(r.W.ent, order)
                       /\ delivered' = delivered \cup fragments
                       /\ redelivered' = redelivered \cup (fragments \cap delivered)
                       /\ call' = [call EXCEPT ![c].pc = "frameAwait",
                                     ![c].updated = r.updated,
                                     ![c].committed = TRUE,
                                     ![c].fragments = fragments]
  /\ UNCHANGED <<engineKind, time, previousTime, registry, loops, triggers,
                 entitiesArg, aliased, signalAborted, lost, turnFailed>>
  /\ UNCHANGED <<arrays, probe, movement, drain>>

\* The promise of frame(fragments) settles: loop() returns its result or
\* rejects with a FrameError "frame".
FrameSettle(c) ==
  /\ call[c].pc = "frameAwait"
  /\ NothingSettled
  /\ \E ok \in BOOLEAN :
       IF ok
       THEN /\ call' = [call EXCEPT ![c].pc = "loopSettled"]
            /\ UNCHANGED lost
       ELSE /\ call' = [call EXCEPT ![c].pc = "loopSettled",
                          ![c].caught = Cause("frame rejected"),
                          ![c].loopError =
                             FrameError("frame", "E_FRAME", Cause("frame rejected"))]
            /\ lost' = lost \cup call[c].fragments
  /\ UNCHANGED <<engineKind, time, previousTime, registry, engineFragments,
                 ent, loops, triggers, nextId, entitiesArg, aliased,
                 signalAborted, delivered, redelivered, turnFailed>>
  /\ UNCHANGED <<arrays, probe, movement, drain>>

\* next() resumes after `await loop(engine.time)`: a rejection is wrapped in
\* an AggregateError and thrown; otherwise {done: false, value: {time:
\* engine.time, fragments}} is returned, engine.time being read now and
\* fragments being the Set of loop()'s result.
NextResume(c) ==
  /\ call[c].pc = "loopSettled"
  /\ NothingSettled
  /\ IF call[c].loopError # NoError
     THEN /\ call' = [call EXCEPT ![c].pc = "settled", ![c].outcome = "error",
                        ![c].error = TurnError(call[c].loopError)]
          /\ turnFailed' = TRUE
     ELSE /\ call' = [call EXCEPT ![c].pc = "settled", ![c].outcome = "value",
                        ![c].valueTime = time,
                        ![c].valueFragments = call[c].fragments]
          /\ UNCHANGED turnFailed
  /\ UNCHANGED <<engineKind, time, previousTime, registry, engineFragments,
                 ent, loops, triggers, nextId, entitiesArg, aliased,
                 signalAborted, delivered, redelivered, lost>>
  /\ UNCHANGED <<arrays, probe, movement, drain>>

\* The caller has taken what next() settled with.
Consume(c) ==
  /\ call[c].pc = "settled"
  /\ call' = [call EXCEPT ![c] = IdleCall]
  /\ UNCHANGED <<engineKind, time, previousTime, registry, engineFragments,
                 ent, loops, triggers, nextId, entitiesArg, aliased,
                 signalAborted, delivered, redelivered, lost, turnFailed>>
  /\ UNCHANGED <<arrays, probe, movement, drain>>

\* ----------------------------------------------------------- external code
\* The AbortController of the turn's signal is aborted.
Abort ==
  /\ NoContinuationDue
  /\ ~signalAborted
  /\ signalAborted' = TRUE
  /\ call' = [c \in Calls |->
                IF InFlight(c) THEN [call[c] EXCEPT !.abortedAt = call[c].pc]
                ELSE call[c]]
  /\ UNCHANGED <<engineKind, time, previousTime, registry, engineFragments,
                 ent, loops, triggers, nextId, entitiesArg, aliased,
                 delivered, redelivered, lost, turnFailed>>
  /\ UNCHANGED <<arrays, probe, movement, drain>>

\* engine.addEntity(e) / engine.removeEntity(e).
AddEntity(e) ==
  /\ BetweenTicks
  /\ registry' = EngineAddEntity(registry, e)
  /\ UNCHANGED <<engineKind, time, previousTime, engineFragments, ent, loops,
                 triggers, nextId, entitiesArg, aliased, signalAborted, call,
                 delivered, redelivered, lost, turnFailed>>
  /\ UNCHANGED <<arrays, probe, movement, drain>>

RemoveEntity(e) ==
  /\ BetweenTicks
  /\ registry' = EngineRemoveEntity(registry, e)
  /\ UNCHANGED <<engineKind, time, previousTime, engineFragments, ent, loops,
                 triggers, nextId, entitiesArg, aliased, signalAborted, call,
                 delivered, redelivered, lost, turnFailed>>
  /\ UNCHANGED <<arrays, probe, movement, drain>>

\* entity.addEvent(...) called outside Entity.update (game logic, the commit
\* callback).
ExternalAddEvent(e) ==
  /\ NoContinuationDue
  /\ ent[e].events = <<>>
  /\ ent' = [ent EXCEPT ![e] = AddEvent(ent[e], "hit", <<>>)]
  /\ UNCHANGED <<engineKind, time, previousTime, registry, engineFragments,
                 loops, triggers, nextId, entitiesArg, aliased, signalAborted,
                 call, delivered, redelivered, lost, turnFailed>>
  /\ UNCHANGED <<arrays, probe, movement, drain>>

\* One next() at a time, as `for await` drives the iterator, with the game
\* logic around it.
Next ==
  \/ TurnNext("c1")
  \/ LoopResume("c1")
  \/ FrameSettle("c1")
  \/ NextResume("c1")
  \/ Consume("c1")
  \/ Abort
  \/ \E e \in Entities : AddEntity(e)
  \/ \E e \in Entities : RemoveEntity(e)
  \/ \E e \in Entities : ExternalAddEvent(e)

Spec == Init /\ [][Next]_vars

\* next() may be called again before the previous call has settled.
NextOverlap ==
  \/ \E c \in Calls : TurnNext(c)
  \/ \E c \in Calls : LoopResume(c)
  \/ \E c \in Calls : FrameSettle(c)
  \/ \E c \in Calls : NextResume(c)
  \/ \E c \in Calls : Consume(c)
  \/ Abort
  \/ \E e \in Entities : ExternalAddEvent(e)

SpecOverlap == Init /\ [][NextOverlap]_vars

\* ------------------------------------------------- the Engine, called directly
\* The variables of the frame driver, which a direct call leaves alone.
driverVars ==
  <<entitiesArg, aliased, signalAborted, call, delivered, redelivered, lost,
    turnFailed>>

\* engine.update(arg) called by any code that holds the engine, with any tick.
CallEngineUpdate(arg) ==
  /\ engineKind = "part_000" => time < MaxTime
  /\ LET r == EngineUpdate(engineKind, time, previousTime, engineFragments, arg)
     IN /\ time' = r.time
        /\ previousTime' = r.previousTime
        /\ probe' = [NoProbe EXCEPT !.op = "Engine.update", !.arg = arg,
                                    !.threw = r.cause]
  /\ engineFragments' = EngineUpdateFragments(engineKind, engineFragments, arg)
  /\ UNCHANGED <<engineKind, registry, ent, loops, triggers,
                 nextId, arrays>>
  /\ UNCHANGED <<driverVars, movement, drain>>

\* The `fragments` getter hands out the Engine's own Set (typed ReadonlySet): a
\* fragment is added to it.  The Engine has no method that stages one.
StageEngineFragment ==
  /\ engineFragments = {}
  /\ engineFragments' = {Fragment(0, NoKey, time, NoObject)}
  /\ probe' = [NoProbe EXCEPT !.op = "Engine.fragments.add"]
  /\ UNCHANGED <<engineKind, time, previousTime, registry, ent, loops, triggers,
                 nextId, arrays>>
  /\ UNCHANGED <<driverVars, movement, drain>>

\* engine.clearFragments().
CallEngineClearFragments ==
  /\ engineFragments' = EngineClearFragments(engineFragments)
  /\ probe' = [NoProbe EXCEPT !.op = "Engine.clearFragments"]
  /\ UNCHANGED <<engineKind, time, previousTime, registry, ent, loops, triggers,
                 nextId, arrays>>
  /\ UNCHANGED <<driverVars, movement, drain>>

\* engine.addEntity(e) / engine.removeEntity(e).
CallAddEntity(e) ==
  /\ registry' = EngineAddEntity(registry, e)
  /\ probe' = [NoProbe EXCEPT !.op = "Engine.addEntity", !.entity = e,
                              !.had = e \in Range(registry)]
  /\ UNCHANGED <<engineKind, time, previousTime, engineFragments, ent, loops,
                 triggers, nextId, arrays>>
  /\ UNCHANGED <<driverVars, movement, drain>>

CallRemoveEntity(e) ==
  /\ registry' = EngineRemoveEntity(registry, e)
  /\ probe' = [NoProbe EXCEPT !.op = "Engine.removeEntity", !.entity = e,
                              !.had = e \in Range(registry)]
  /\ UNCHANGED <<engineKind, time, previousTime, engineFragments, ent, loops,
                 triggers, nextId, arrays>>
  /\ UNCHANGED <<driverVars, movement, drain>>

\* No turn is running; the engine's methods are called in any order.
InitEngine == Init /\ aliased

NextEngine ==
  \/ \E arg \in 0..MaxTime : CallEngineUpdate(arg)
  \/ StageEngineFragment
  \/ CallEngineClearFragments
  \/ \E e \in Entities : CallAddEntity(e)
  \/ \E e \in Entities : CallRemoveEntity(e)

SpecEngine == InitEngine /\ [][NextEngine]_vars

\* ------------------------------------------------ an Entity, called directly
\* The entity whose methods are called.
Subject == "e1"
\* Values a caller assigns to a component of a value object it holds.
MaxCoord == 1
\* What addFragments is called with: one or two new fragments, each keyless
\* or keyed.
FragmentKeyLists ==
  LET ks == {NoKey, OrientationKey(Subject)}
  IN {<<k>> : k \in ks} \cup {<<k1, k2>> : k1 \in ks, k2 \in ks}
NewFragments(keys, id, now) ==
  [i \in 1..Len(keys) |-> Fragment(id + i - 1, keys[i], now, NoObject)]

\* What the callbacks of the Subject do; those of the other entities are not
\* invoked by a call on the Subject.
SubjectPlans == {p \in Plans : \A e \in Entities \ {Subject} : p[e].loop = "nop"}

engineVars == <<engineKind, time, previousTime, registry, engineFragments>>

\* entity.update() called directly (as createLoop calls it).
CallEntityUpdate ==
  \E plan \in SubjectPlans :
    LET W == EntityUpdate(Subject, World(ent, nextId), plan, time)
    IN /\ W.nid <= MaxFrags + 1
       /\ ent' = W.ent
       /\ nextId' = W.nid
       /\ probe' = [NoProbe EXCEPT !.op = "Entity.update", !.threw = W.cause,
                                   !.invoked = W.calls]
       /\ UNCHANGED <<loops, triggers, arrays>>
       /\ UNCHANGED engineVars
       /\ UNCHANGED <<driverVars, movement, drain>>

\* entity.runTrigger("hit") called directly.
CallRunTrigger ==
  \E plan \in SubjectPlans :
    LET W == RunTrigger(Subject, "hit", World(ent, nextId), plan, time, 1)
    IN /\ W.nid <= MaxFrags + 1
       /\ ent' = W.ent
       /\ nextId' = W.nid
       /\ probe' = [NoProbe EXCEPT !.op = "Entity.runTrigger", !.threw = W.cause,
                                   !.invoked = W.calls,
                                   !.effect = plan[Subject].listener]
       /\ UNCHANGED <<loops, triggers, arrays>>
       /\ UNCHANGED engineVars
       /\ UNCHANGED <<driverVars, movement, drain>>

\* entity.setOrientation(o), o being an Orientation3D the caller keeps.
CallSetOrientation ==
  /\ nextId <= MaxFrags
  /\ ent' = [ent EXCEPT ![Subject] =
               SetOrientation(ent[Subject], Subject, time, nextId,
                              ValueObject("given"))]
  /\ nextId' = nextId + 1
  /\ probe' = [NoProbe EXCEPT !.op = "Entity.setOrientation",
                              !.held = ValueObject("given")]
  /\ UNCHANGED <<loops, triggers, arrays>>
  /\ UNCHANGED engineVars
  /\ UNCHANGED <<driverVars, movement, drain>>

\* entity.setLocation(v), v being a Vector3D the caller keeps.
CallSetLocation ==
  LET r == SetLocation(ent[Subject], Subject, time, nextId, ValueObject("given"))
  IN /\ ent' = [ent EXCEPT ![Subject] = r.es]
     /\ probe' = [NoProbe EXCEPT !.op = "Entity.setLocation", !.threw = r.threw,
                                 !.held = ValueObject("given")]
     /\ UNCHANGED <<nextId, loops, triggers, arrays>>
     /\ UNCHANGED engineVars
     /\ UNCHANGED <<driverVars, movement, drain>>

\* const v = entity.location / entity.orientation; v.x / v.pitch is read.
CallGetLocation ==
  /\ probe' = [NoProbe EXCEPT !.op = "Entity.location", !.held = GetLocation,
                              !.read = ReadComponent(arrays, GetLocation)]
  /\ UNCHANGED <<ent, nextId, loops, triggers, arrays>>
  /\ UNCHANGED engineVars
  /\ UNCHANGED <<driverVars, movement, drain>>

CallGetOrientation ==
  /\ probe' = [NoProbe EXCEPT !.op = "Entity.orientation", !.held = GetOrientation,
                              !.read = ReadComponent(arrays, GetOrientation)]
  /\ UNCHANGED <<ent, nextId, loops, triggers, arrays>>
  /\ UNCHANGED engineVars
  /\ UNCHANGED <<driverVars, movement, drain>>

\* The caller assigns n to v.x (v.pitch) of the object it holds: the value a
\* getter returned or the value it passed to a setter.
WriteHeld(n) ==
  /\ probe.held # NoObject
  /\ arrays' = WriteComponent(arrays, probe.held, n)
  /\ probe' = [probe EXCEPT !.op = "write", !.arg = n]
  /\ UNCHANGED <<ent, nextId, loops, triggers>>
  /\ UNCHANGED engineVars
  /\ UNCHANGED <<driverVars, movement, drain>>

\* entity.addFragments(...fragments) with new Fragment objects.
CallAddFragments(keys) ==
  /\ nextId + Len(keys) - 1 <= MaxFrags
  /\ ent' = [ent EXCEPT ![Subject] =
               AddFragments(ent[Subject], NewFragments(keys, nextId, time))]
  /\ nextId' = nextId + Len(keys)
  /\ probe' = [NoProbe EXCEPT !.op = "Entity.addFragments", !.arg = Len(keys)]
  /\ UNCHANGED <<loops, triggers, arrays>>
  /\ UNCHANGED engineVars
  /\ UNCHANGED <<driverVars, movement, drain>>

\* entity.addEvent("hit").
CallAddEvent ==
  /\ ent[Subject].events = <<>>
  /\ ent' = [ent EXCEPT ![Subject] = AddEvent(ent[Subject], "hit", <<>>)]
  /\ probe' = [NoProbe EXCEPT !.op = "Entity.addEvent"]
  /\ UNCHANGED <<nextId, loops, triggers, arrays>>
  /\ UNCHANGED engineVars
  /\ UNCHANGED <<driverVars, movement, drain>>

\* entity.clearFragments() / entity.clearEvents().
CallClearFragments ==
  /\ ent' = [ent EXCEPT ![Subject] = ClearFragments(ent[Subject])]
  /\ probe' = [NoProbe EXCEPT !.op = "Entity.clearFragments"]
  /\ UNCHANGED <<nextId, loops, triggers, arrays>>
  /\ UNCHANGED engineVars
  /\ UNCHANGED <<driverVars, movement, drain>>

CallClearEvents ==
  /\ ent' = [ent EXCEPT ![Subject] = ClearEvents(ent[Subject])]
  /\ probe' = [NoProbe EXCEPT !.op = "Entity.clearEvents"]
  /\ UNCHANGED <<nextId, loops, triggers, arrays>>
  /\ UNCHANGED engineVars
  /\ UNCHANGED <<driverVars, movement, drain>>

\* entity.sleepUntil = t.
CallSetSleepUntil(t) ==
  /\ ent' = [ent EXCEPT ![Subject] = SetSleepUntil(ent[Subject], <<t>>)]
  /\ probe' = [NoProbe EXCEPT !.op = "Entity.sleepUntil", !.arg = t]
  /\ UNCHANGED <<nextId, loops, triggers, arrays>>
  /\ UNCHANGED engineVars
  /\ UNCHANGED <<driverVars, movement, drain>>

\* One entity of a counting Engine, with one Loop and two listeners of "hit";
\* no turn is running.
InitEntity ==
  /\ engineKind = "part_000"
  /\ time = 0
  /\ previousTime = 0
  /\ registry = <<Subject>>
  /\ engineFragments = {}
  /\ ent = [e \in Entities |-> NewEntity]
  /\ loops = [e \in Entities |-> <<"l1">>]
  /\ triggers = [e \in Entities |-> [n \in TriggerNames |-> <<"t1", "t2">>]]
  /\ nextId = 1
  /\ aliased = TRUE
  /\ entitiesArg = <<>>
  /\ signalAborted = FALSE
  /\ call = [c \in Calls |-> IdleCall]
  /\ delivered = {}
  /\ redelivered = {}
  /\ lost = {}
  /\ turnFailed = FALSE
  /\ arrays = NewArrays
  /\ probe = NoProbe
  /\ movement = NoMovement
  /\ drain = NoDrain

\* The methods that stage and run: update, triggers, fragments, events, sleep.
NextEntity ==
  \/ CallEntityUpdate
  \/ CallRunTrigger
  \/ \E keys \in FragmentKeyLists : CallAddFragments(keys)
  \/ CallAddEvent
  \/ CallClearFragments
  \/ CallClearEvents
  \/ \E t \in 0..MaxTime : CallSetSleepUntil(t)
  \/ \E arg \in 0..MaxTime : CallEngineUpdate(arg)

SpecEntity == InitEntity /\ [][NextEntity]_vars

\* The methods that read and write location and orientation, and the code
\* that holds the values they return or were given.
NextValues ==
  \/ CallSetOrientation
  \/ CallSetLocation
  \/ CallGetLocation
  \/ CallGetOrientation
  \/ \E n \in 0..MaxCoord : WriteHeld(n)
  \/ CallClearFragments
  \/ \E arg \in 0..MaxTime : CallEngineUpdate(arg)

SpecValues == InitEntity /\ [][NextValues]_vars

\* ------------------------------------------------- triggers, called directly
\* What the listeners of the Subject do in a dispatch round: nothing, call
\* the removal handle of a listener, or throw.
TriggerPlans ==
  {p \in [Entities -> [loop : {"nop"}, listener : {"nop", "unhook", "throw"}]] :
     \A e \in Entities \ {Subject} : p[e].listener = "nop"}

\* entity.addTrigger("hit", l).
CallAddTrigger(l) ==
  /\ triggers' = [triggers EXCEPT ![Subject] = AddTrigger(@, "hit", l)]
  /\ probe' = [NoProbe EXCEPT !.op = "Entity.addTrigger"]
  /\ UNCHANGED <<ent, nextId, loops, arrays>>
  /\ UNCHANGED engineVars
  /\ UNCHANGED <<driverVars, movement, drain>>

\* The function addTrigger("hit", l) returned is called, outside a dispatch.
CallRemoveHandle(l) ==
  /\ triggers' = [triggers EXCEPT ![Subject] = RemoveHandle(@, "hit", l)]
  /\ probe' = [NoProbe EXCEPT !.op = "removeTrigger"]
  /\ UNCHANGED <<ent, nextId, loops, arrays>>
  /\ UNCHANGED engineVars
  /\ UNCHANGED <<driverVars, movement, drain>>

\* entity.runTrigger("hit") with listeners that may call a removal handle.
CallRunTriggerUnhooking ==
  \E plan \in TriggerPlans :
    LET W == RunTrigger(Subject, "hit", World(ent, nextId), plan, time, 1)
    IN /\ ent' = W.ent
       /\ nextId' = W.nid
       /\ triggers' = W.triggers
       /\ probe' = [NoProbe EXCEPT !.op = "Entity.runTrigger", !.threw = W.cause,
                                   !.invoked = W.calls,
                                   !.effect = plan[Subject].listener]
       /\ UNCHANGED <<loops, arrays>>
       /\ UNCHANGED engineVars
       /\ UNCHANGED <<driverVars, movement, drain>>

NextTriggers ==
  \/ \E l \in ListenerIds : CallAddTrigger(l)
  \/ \E l \in ListenerIds : CallRemoveHandle(l)
  \/ CallRunTriggerUnhooking
  \/ CallAddEvent
  \/ CallClearEvents
  \/ \E arg \in 0..MaxTime : CallEngineUpdate(arg)

SpecTriggers == InitEntity /\ [][NextTriggers]_vars

\* ---------------------------------------------------- Loops, called directly
\* The `loops` getter hands out the entity's own Set (typed ReadonlySet); the
\* Entity has no method that registers a Loop, so a Loop is added to and
\* deleted from that Set.
CallAddLoop(l) ==
  /\ loops' = [loops EXCEPT ![Subject] = SetAdd(@, l)]
  /\ probe' = [NoProbe EXCEPT !.op = "Entity.loops.add"]
  /\ UNCHANGED <<ent, nextId, triggers, arrays>>
  /\ UNCHANGED engineVars
  /\ UNCHANGED <<driverVars, movement, drain>>

CallDeleteLoop(l) ==
  /\ loops' = [loops EXCEPT ![Subject] = SetDelete(@, l)]
  /\ probe' = [NoProbe EXCEPT !.op = "Entity.loops.delete"]
  /\ UNCHANGED <<ent, nextId, triggers, arrays>>
  /\ UNCHANGED engineVars
  /\ UNCHANGED <<driverVars, movement, drain>>

NextLoops ==
  \/ \E l \in LoopIds : CallAddLoop(l)
  \/ \E l \in LoopIds : CallDeleteLoop(l)
  \/ CallEntityUpdate
  \/ CallClearFragments
  \/ CallClearEvents
  \/ \E t \in 0..MaxTime : CallSetSleepUntil(t)
  \/ \E arg \in 0..MaxTime : CallEngineUpdate(arg)

SpecLoops == InitEntity /\ [][NextLoops]_vars

\* ------------------------------------------- the event drain, step by step
\* Entity.update with listeners that queue events: the drain is a for-of over
\* the live Sets of #events, so an event a listener queues is visited by the
\* same drain.  One step takes the next event, one runs its runTrigger.  The
\* events the iterator has passed stay in the queue but are not visited
\* again; the caller clears the queue when update() has returned or thrown
\* (as createLoop does after a tick), so `ent` shows the queue between
\* updates and drain.ahead the part of it still to be visited.
MaxEvents == 2

\* What the callbacks of the Subject do: nothing, queue an event, or throw.
DrainPlans ==
  {p \in [Entities -> [loop : {"nop", "event", "throw"},
                       listener : {"nop", "event", "throw"}]] :
     \A e \in Entities \ {Subject} : p[e] = [loop |-> "nop", listener |-> "nop"]}

\* entity.update() is called and runs up to the drain.
UpdateToDrain ==
  /\ ~drain.active
  /\ \E plan \in DrainPlans :
       LET r == EntityUpdateToDrain(Subject, World(ent, nextId), plan, time)
       IN /\ drain' = IF r.draining
                      THEN [active |-> TRUE,
                            ahead |-> Len(r.W.ent[Subject].events),
                            current |-> FALSE]
                      ELSE NoDrain
          /\ probe' = [NoProbe EXCEPT !.op = "Entity.update", !.threw = r.W.cause,
                                      !.invoked = r.W.calls]
  /\ UNCHANGED <<ent, nextId, loops, triggers, arrays, movement>>
  /\ UNCHANGED engineVars
  /\ UNCHANGED driverVars

\* `for (const event of events)`: the iterator moves to the next event.
DrainTake ==
  /\ drain.active /\ ~drain.current
  /\ drain.ahead > 0
  /\ drain' = [drain EXCEPT !.ahead = @ - 1, !.current = TRUE]
  /\ UNCHANGED <<ent, nextId, loops, triggers, arrays, probe, movement>>
  /\ UNCHANGED engineVars
  /\ UNCHANGED driverVars

\* `this.runTrigger(name, ...event.args)` for the event taken: the listeners
\* run; the events they queue go to the end of the Set being iterated; what
\* a listener throws leaves update().
DrainRound ==
  /\ drain.active /\ drain.current
  /\ \E plan \in DrainPlans :
       LET W == RunTrigger(Subject, "hit", World(ent, nextId), plan, time, 1)
           queued == Len(W.ent[Subject].events) - Len(ent[Subject].events)
       IN /\ drain.ahead + queued <= MaxEvents
          /\ IF W.ok
             THEN /\ drain' = [drain EXCEPT !.ahead = @ + queued, !.current = FALSE]
                  /\ probe' = [probe EXCEPT !.invoked = W.calls]
             ELSE /\ drain' = NoDrain
                  /\ probe' = [probe EXCEPT !.threw = W.cause, !.invoked = W.calls]
  /\ UNCHANGED <<ent, nextId, loops, triggers, arrays, movement>>
  /\ UNCHANGED engineVars
  /\ UNCHANGED driverVars

\* The iterator is past the last event: update() returns.
DrainReturn ==
  /\ drain.active /\ ~drain.current
  /\ drain.ahead = 0
  /\ drain' = NoDrain
  /\ probe' = [probe EXCEPT !.returned = <<TRUE>>]
  /\ UNCHANGED <<ent, nextId, loops, triggers, arrays, movement>>
  /\ UNCHANGED engineVars
  /\ UNCHANGED driverVars

\* The steps of a drain in progress.
DrainStep == DrainTake \/ DrainRound \/ DrainReturn

\* Listeners are registered and removed, and the engine is updated, between
\* updates of the entity.
BetweenUpdates ==
  /\ ~drain.active
  /\ \/ \E l \in ListenerIds : CallAddTrigger(l)
     \/ \E l \in ListenerIds : CallRemoveHandle(l)
     \/ \E arg \in 0..MaxTime : CallEngineUpdate(arg)

NextDrain ==
  \/ UpdateToDrain
  \/ DrainTake
  \/ DrainRound
  \/ DrainReturn
  \/ BetweenUpdates

\* update() is synchronous: once called it runs on until it returns or throws.
SpecDrain == InitEntity /\ [][NextDrain]_vars /\ WF_vars(DrainStep)

\* ------------------------------------------------ Vector3D, called directly
\* The component values of the vectors a caller builds.
Coords == 0..MaxCoord
\* The factors a caller gives: 0, 1/3, 1/2, 1, and 2 (beyond the target).
Factors ==
  {[num |-> 0, den |-> 1], [num |-> 1, den |-> 3], [num |-> 1, den |-> 2],
   [num |-> 1, den |-> 1], [num |-> 2, den |-> 1]}

\* new Vector3D([x, y, z]) for one of the two vectors the caller interpolates
\* between: `a` is kept in the array "location", `b` in the array "given".
CallNewVector(id, xyz) ==
  /\ arrays' = [arrays EXCEPT ![id] = xyz]
  /\ probe' = [NoProbe EXCEPT !.op = "new Vector3D"]
  /\ UNCHANGED <<ent, nextId, loops, triggers>>
  /\ UNCHANGED engineVars
  /\ UNCHANGED <<driverVars, movement, drain>>

\* Vector3D.interpolate(a, other, t), other being b or a itself.
CallInterpolate(other, t) ==
  /\ probe' = [NoProbe EXCEPT !.op = "Vector3D.interpolate",
                              !.held = other, !.t = <<t>>,
                              !.result = Vector3DInterpolate(
                                           arrays, ValueObject("location"), other, t)]
  /\ UNCHANGED <<ent, nextId, loops, triggers, arrays>>
  /\ UNCHANGED engineVars
  /\ UNCHANGED <<driverVars, movement, drain>>

NextVectors ==
  \/ \E id \in {"location", "given"}, xyz \in [1..3 -> Coords] :
       CallNewVector(id, xyz)
  \/ \E other \in {ValueObject("given"), ValueObject("location")}, t \in Factors :
       CallInterpolate(other, t)

SpecVectors == InitEntity /\ [][NextVectors]_vars

\* ------------------------------------------------- Movement, called directly
MaxFrame == 3

\* The steps a caller gives: any frame range, from the origin to MaxCoord.
Steps ==
  {s \in [startFrame : 0..MaxFrame, endFrame : 0..MaxFrame, from : {0},
          to : {MaxCoord}, orientation : {0}] : s.startFrame <= s.endFrame}
StepLists ==
  {<<>>} \cup {<<a>> : a \in Steps} \cup {<<a, b>> : a \in Steps, b \in Steps}

\* Callbacks that do nothing.
IdlePlan == [e \in Entities |-> [loop |-> "nop", listener |-> "nop"]]

\* new Movement({entity: Subject, engine, steps}).
NewMovement(steps) ==
  /\ movement = NoMovement
  /\ LET r == MovementNew(steps)
     IN /\ movement' = r.movement
        /\ probe' = [NoProbe EXCEPT !.op = "new Movement", !.arg = Len(steps),
                                    !.threw = r.cause]
  /\ UNCHANGED <<ent, nextId, loops, triggers, arrays>>
  /\ UNCHANGED engineVars
  /\ UNCHANGED <<driverVars, drain>>

\* movement.update() called directly.
CallMovementUpdate ==
  /\ movement # NoMovement
  /\ LET r == MovementUpdate(movement, ent[Subject], Subject, time, nextId, arrays)
     IN /\ ent' = [ent EXCEPT ![Subject] = r.es]
        /\ nextId' = IF r.ok THEN nextId + 2 ELSE nextId
        /\ probe' = [NoProbe EXCEPT !.op = "Movement.update", !.threw = r.cause,
                                    !.next = r.next, !.returned = r.returned]
  /\ UNCHANGED <<loops, triggers, arrays>>
  /\ UNCHANGED engineVars
  /\ UNCHANGED <<driverVars, movement, drain>>

\* movement.abort.abort().
AbortMovement ==
  /\ movement # NoMovement
  /\ ~movement.aborted
  /\ movement' = [movement EXCEPT !.aborted = TRUE]
  /\ probe' = [NoProbe EXCEPT !.op = "Movement.abort.abort"]
  /\ UNCHANGED <<ent, nextId, loops, triggers, arrays>>
  /\ UNCHANGED engineVars
  /\ UNCHANGED <<driverVars, drain>>

\* entity.update() of the entity the movement was constructed for, with
\* callbacks that do nothing.
CallEntityUpdateIdle ==
  LET W == EntityUpdate(Subject, World(ent, nextId), IdlePlan, time)
  IN /\ ent' = W.ent
     /\ nextId' = W.nid
     /\ probe' = [NoProbe EXCEPT !.op = "Entity.update", !.threw = W.cause,
                                 !.invoked = W.calls]
     /\ UNCHANGED <<loops, triggers, arrays>>
     /\ UNCHANGED engineVars
     /\ UNCHANGED <<driverVars, movement, drain>>

NextMovement ==
  \/ \E steps \in StepLists : NewMovement(steps)
  \/ CallMovementUpdate
  \/ AbortMovement
  \/ CallEntityUpdateIdle
  \/ \E arg \in 0..MaxTime : CallEngineUpdate(arg)

SpecMovement == InitEntity /\ [][NextMovement]_vars

\* ------------------------------------------------------------------ claims
Settled(c) == call[c].pc = "settled"
\* The set given to turn() as `entities`.
Given == IF aliased THEN registry ELSE entitiesArg
\* The stage of the tick of invocation c that failed, from what ran.
FailedStage(c) ==
  IF call[c].engineErr # NoError THEN "engine"
  ELSE IF call[c].failed # <<>> THEN "entity"
  ELSE IF call[c].committed THEN "frame"
  ELSE "none"

\* C1: every next() that emits a result leaves the Engine's time exactly one
\* greater than it was when next() was called.
C1_TimeAdvancesByOne ==
  \A c \in Calls :
    Settled(c) /\ call[c].outcome = "value"
      => call[c].valueTime = call[c].arg + 1

\* C2: at the moment the commit callback is invoked, the Engine's bucket and
\* every driven Entity's bucket and event queue are empty.
C2_BucketsEmptyAtCommit ==
  [][\A c \in Calls :
       call[c].pc # "frameAwait" /\ call'[c].pc = "frameAwait"
         => /\ engineFragments' = {}
            /\ \A e \in Range(Given) :
                 ent'[e].fragments = <<>> /\ ent'[e].events = <<>>]_vars

\* A commit callback has been invoked with fragments that had been staged.
C2_Witness ==
  \E c \in Calls : call[c].pc = "frameAwait" /\ call[c].fragments # {}

\* C3: no fragment is handed to the commit callback in more than one tick;
\* one whose commit callback failed is not handed over again.
C3_AtMostOnce ==
  /\ redelivered = {}
  /\ \A c \in Calls :
       call[c].pc = "frameAwait" => call[c].fragments \cap lost = {}

\* A later tick hands fragments to the commit callback after the commit of an
\* earlier tick with fragments has failed.
C3_Witness ==
  \E c \in Calls :
    call[c].pc = "frameAwait" /\ call[c].fragments # {} /\ lost # {}

\* C4: no stage of a tick starts while the previous tick is between its
\* Engine.update and the settling of its commit callback.
TickOpen(c) == call[c].pc \in {"engineAwait", "frameAwait"}
C4_NoOverlap ==
  \A c, d \in Calls : c # d => ~(TickOpen(c) /\ TickOpen(d))

\* C5: once a next() has failed, no later next() starts a tick: it is not in
\* flight and settles with done.
C5_FailedTurnIsExhausted ==
  turnFailed =>
    \A c \in Calls :
      /\ call[c].pc \in {"idle", "settled"}
      /\ call[c].outcome \in {"none", "error", "done"}

\* C6 as stated: the error next() rejects with carries the tag of the failed
\* stage and has the original cause among its errors.
C6_ErrorTaggedAtTop ==
  \A c \in Calls :
    Settled(c) /\ call[c].outcome = "error"
      => /\ "specifier" \in DOMAIN call[c].error
         /\ call[c].error.specifier = FailedStage(c)
         /\ \E i \in 1..Len(call[c].error.errors) :
              call[c].error.errors[i] = call[c].caught

\* C6 as amended: next() rejects with an AggregateError whose only member is
\* the FrameError; the FrameError carries the tag of the failed stage and has
\* the original cause as its only member.
C6_ErrorTaggedInside ==
  \A c \in Calls :
    Settled(c) /\ call[c].outcome = "error"
      => /\ call[c].error.type = "AggregateError"
         /\ Len(call[c].error.errors) = 1
         /\ call[c].error.errors[1].type = "FrameError"
         /\ call[c].error.errors[1].specifier = FailedStage(c)
         /\ call[c].error.errors[1].specifier \in {"engine", "entity", "frame"}
         /\ call[c].error.errors[1].errors = <<call[c].caught>>
         /\ call[c].caught # NoError

\* next() has rejected for a failed entity stage, after an earlier one had
\* rejected for a failed commit.
C6_Witness ==
  \E c \in Calls :
    /\ Settled(c) /\ call[c].outcome = "error"
    /\ FailedStage(c) = "entity"
    /\ lost # {}

\* C7: when an entity's update fails, no later entity of the iteration order
\* is updated in that tick, the commit callback is not invoked and no result
\* is emitted.
C7_EntityFailureAborts ==
  \A c \in Calls :
    call[c].failed # <<>>
      => /\ call[c].updated = SubSeq(Given, 1, Len(call[c].updated))
         /\ call[c].updated[Len(call[c].updated)] = call[c].failed[1]
         /\ ~call[c].committed
         /\ call[c].fragments = {}
         /\ call[c].outcome \in {"none", "error"}

\* The first of two driven entities failed and next() has rejected.
C7_Witness ==
  \E c \in Calls :
    /\ Settled(c) /\ call[c].failed # <<>>
    /\ Len(call[c].updated) < Len(Given)

\* C8: next() called with the token set settles with done and changes
\* neither the engine, nor an entity, nor what was handed to commit.
C8_AbortedNextDoesNothing ==
  [][\A c \in Calls :
       signalAborted /\ call[c].pc = "idle" /\ call'[c].pc # "idle"
         => /\ call'[c].pc = "settled"
            /\ call'[c].outcome = "done"
            /\ call'[c].updated = <<>>
            /\ ~call'[c].committed
            /\ UNCHANGED <<time, previousTime, ent, nextId, engineFragments,
                           delivered>>]_vars

\* next() was called with the token set, at a time later than 0.
C8_Witness ==
  \E c \in Calls : Settled(c) /\ call[c].outcome = "done" /\ delivered # {}

\* C9: a tick that was in flight when the token was set ends as it would
\* have: with its result, after the update of every entity and the commit, or
\* with the failure of one of its stages; never with done.
C9_AbortDoesNotUnwind ==
  \A c \in Calls :
    call[c].abortedAt # "" /\ Settled(c)
      => \/ /\ call[c].outcome = "value"
            /\ call[c].committed
            /\ call[c].updated = Given
         \/ /\ call[c].outcome = "error"
            /\ FailedStage(c) # "none"
            /\ call[c].caught # NoError

\* The token was set right after Engine.update; the tick went on to update
\* the entities, to commit staged fragments and to emit its result.
C9_Witness ==
  \E c \in Calls :
    /\ Settled(c) /\ call[c].abortedAt = "engineAwait"
    /\ call[c].outcome = "value" /\ call[c].fragments # {}

\* C10 as stated: a successful tick has updated exactly the entities of the
\* Engine's registry, each once.
C10_UpdatesTheRegistry ==
  \A c \in Calls :
    call[c].committed
      => /\ Range(call[c].updated) = Range(registry)
         /\ Len(call[c].updated) = Len(registry)

\* C10 as amended: a successful tick has updated exactly the entities of the
\* set given to turn(), each once, in the order of that set.
C10_UpdatesTheGivenSet ==
  \A c \in Calls :
    call[c].committed
      => call[c].updated = (IF aliased THEN registry ELSE entitiesArg)

\* A tick has succeeded on two entities of which the registry holds one.
C10_Witness ==
  \E c \in Calls :
    /\ Settled(c) /\ call[c].outcome = "value"
    /\ Len(call[c].updated) = 2
    /\ Len(registry) = 1

\* C11: the set handed to the commit callback holds exactly the fragments
\* staged in the buckets of the driven entities by the updates of this tick
\* (the Engine's bucket being empty), each stamped with the tick's time; the
\* emitted result carries that same set.
C11_HarvestIsTheUnion ==
  [][\A c \in Calls :
       /\ call[c].pc # "frameAwait" /\ call'[c].pc = "frameAwait"
            => /\ {f.id : f \in call'[c].fragments} = nextId..(nextId' - 1)
               /\ \A f \in call'[c].fragments :
                    f.key.entity \in Range(Given) /\ f.frame = time
               /\ \A e \in Range(Given) : ent[e].fragments = <<>>
               /\ engineFragments = {}
       /\ call[c].pc # "settled" /\ call'[c].pc = "settled"
            /\ call'[c].outcome = "value"
            => call'[c].valueFragments = call[c].fragments]_vars

\* A result has been emitted with the fragments of two entities.
C11_Witness ==
  \E c \in Calls :
    /\ Settled(c) /\ call[c].outcome = "value"
    /\ {f.key.entity : f \in call[c].valueFragments} = Entities

\* The step is a call of engine.update that returned.
EngineUpdated == probe'.op = "Engine.update" /\ probe'.threw = NoError

\* C12 as stated: after every successful Engine.update, previousTime is the
\* time before the call and time is the time before the call plus what was
\* supplied (plus 1 for the Engine that counts by itself).
C12_TimePlusDelta ==
  [][EngineUpdated =>
       /\ engineKind = "engine.ts" => previousTime' = time
       /\ time' = time + (IF engineKind = "part_000" THEN 1 ELSE probe'.arg)]_vars

\* C12 as amended: after every successful update(t) of the Engine of engine.ts,
\* previousTime is the time before the call and time is t itself; after every
\* update() of the counting Engine, time is the time before the call plus 1.
C12_TimeIsTheArgument ==
  [][EngineUpdated =>
       IF engineKind = "engine.ts"
       THEN previousTime' = time /\ time' = probe'.arg
       ELSE time' = time + 1]_vars

\* engine.update(t) has returned with t different from the time before, which
\* was not 0.
C12_Witness ==
  /\ probe.op = "Engine.update" /\ probe.threw = NoError
  /\ engineKind = "engine.ts"
  /\ previousTime > 0 /\ time # previousTime /\ time = probe.arg

\* C13: previousTime <= time and time >= 0 in every state of the Engine,
\* whatever ticks update was called with.
C13_PreviousNotAfterTime == previousTime <= time /\ time >= 0

\* C14: Engine.update (engine.ts) throws when the Engine's bucket is not
\* empty, and then leaves time and previousTime as they were.
C14_UpdateRefusesFragments ==
  [][probe'.op = "Engine.update" /\ engineKind = "engine.ts"
       /\ engineFragments # {}
       => /\ probe'.threw = Cause("Engine must not have fragments.")
          /\ time' = time
          /\ previousTime' = previousTime]_vars

\* engine.update(t) has thrown at a time other than t and than previousTime.
C14_Witness ==
  /\ probe.op = "Engine.update" /\ probe.threw # NoError
  /\ probe.arg # time /\ time # previousTime

\* The entity's bucket or its event queue holds something.
NotEmptyAtEntry ==
  ent[Subject].fragments # <<>> \/ ent[Subject].events # <<>>
\* The entity has a sleepUntil later than the engine's time.
Asleep ==
  ent[Subject].sleepUntil # <<>> /\ time < ent[Subject].sleepUntil[1]

\* The listeners of a name, once for each of n events.
RECURSIVE Times(_, _)
Times(listeners, n) == IF n = 0 THEN <<>> ELSE listeners \o Times(listeners, n - 1)

\* C15: Entity.update throws a precondition error when the bucket or the
\* event queue is not empty at entry; it then invokes no callback and leaves
\* bucket, queue and attributes as they were.
C15_UpdatePrecondition ==
  [][probe'.op = "Entity.update" /\ NotEmptyAtEntry
       => /\ probe'.threw =
               (IF ent[Subject].fragments # <<>>
                THEN Cause("Entity must not have fragments.")
                ELSE Cause("Entity must not have events."))
          /\ probe'.invoked = <<>>
          /\ ent' = ent
          /\ nextId' = nextId]_vars

\* update() has thrown for a queued event on an entity whose sleepUntil has
\* passed.
C15_Witness ==
  /\ probe.op = "Entity.update"
  /\ probe.threw = Cause("Entity must not have events.")
  /\ ent[Subject].sleepUntil # <<>> /\ ~Asleep

\* C16: the bucket never holds two fragments with the same key.
C16_OneFragmentPerKey ==
  \A i, j \in 1..Len(ent[Subject].fragments) :
    LET f == ent[Subject].fragments[i]
        g == ent[Subject].fragments[j]
    IN f.key # NoKey /\ f.key = g.key => i = j

\* C17: after setLocation or setOrientation has been called, it has returned
\* and the bucket holds a fragment with the key of that field and the value
\* given.
C17_SettersStage ==
  /\ probe.op = "Entity.setLocation"
       => /\ probe.threw = NoError
          /\ \E f \in Range(ent[Subject].fragments) :
               f.key = LocationKey(Subject) /\ f.value.array = "given"
  /\ probe.op = "Entity.setOrientation"
       => /\ probe.threw = NoError
          /\ \E f \in Range(ent[Subject].fragments) :
               f.key = OrientationKey(Subject) /\ f.value.array = "given"

\* C18: assigning a component of a value a caller holds (the return value of
\* a getter, the argument of a setter) changes neither what the getters
\* return nor the value of a staged fragment.
C18_NoLiveAlias ==
  [][probe'.op = "write"
       => /\ ReadComponent(arrays', GetLocation) = ReadComponent(arrays, GetLocation)
          /\ ReadComponent(arrays', GetOrientation)
               = ReadComponent(arrays, GetOrientation)
          /\ \A f \in Range(ent[Subject].fragments) :
               ReadComponent(arrays', f.value) = ReadComponent(arrays, f.value)]_vars

\* C19 as stated: update() of an entity with a sleepUntil later than the
\* engine's time changes nothing and invokes nothing; update() of an entity
\* with a sleepUntil that has passed clears it and runs the loop callbacks.
C19_SleepGateAlways ==
  [][probe'.op = "Entity.update" /\ ent[Subject].sleepUntil # <<>>
       => IF Asleep
          THEN ent' = ent /\ nextId' = nextId /\ probe'.invoked = <<>>
          ELSE /\ ent'[Subject].sleepUntil = <<>>
               /\ probe'.invoked # <<>>
               /\ probe'.invoked[1] = loops[Subject][1]]_vars

\* C19 as amended: the same, for an update() that finds bucket and queue
\* empty; it then returns when asleep, and when awake it dispatches the events
\* its loop callbacks queued unless one of them threw.  An update() that finds
\* one of them not empty throws, asleep or not, and keeps sleepUntil.
C19_SleepGateAfterPrecondition ==
  [][probe'.op = "Entity.update" /\ ent[Subject].sleepUntil # <<>>
       => IF NotEmptyAtEntry
          THEN probe'.threw # NoError /\ ent' = ent /\ probe'.invoked = <<>>
          ELSE IF Asleep
          THEN /\ ent' = ent /\ nextId' = nextId
               /\ probe'.invoked = <<>> /\ probe'.threw = NoError
          ELSE /\ ent'[Subject].sleepUntil = <<>>
               /\ probe'.invoked # <<>>
               /\ probe'.invoked[1] = loops[Subject][1]
               /\ ent'[Subject].events # <<>> /\ Len(probe'.invoked) > 1
                    => probe'.invoked[2] = triggers[Subject]["hit"][1]
               /\ probe'.threw = NoError /\ ent'[Subject].events # <<>>
                    => Len(probe'.invoked) > 1]_vars

\* update() has returned on an entity that sleeps until a later time.
C19_Witness ==
  /\ probe.op = "Entity.update" /\ probe.threw = NoError
  /\ Asleep /\ probe.invoked = <<>>
  /\ ~NotEmptyAtEntry

\* C20: runTrigger returns, and has invoked every listener of the name,
\* whatever a listener throws.
C20_ListenerErrorsIsolated ==
  probe.op = "Entity.runTrigger"
    => probe.threw = NoError /\ probe.invoked = triggers[Subject]["hit"]

\* C21: a dispatch round that returns has invoked every listener that was
\* registered for the name when it started, in order, whatever removal handle
\* a listener called meanwhile.
C21_RemovalLeavesTheRoundAlone ==
  [][probe'.op = "Entity.runTrigger" /\ probe'.threw = NoError
       => probe'.invoked = triggers[Subject]["hit"]]_vars

\* C22: Entity.update never takes an event out of the queue, only
\* clearEvents shortens it; an awake update that returns has invoked, after
\* the loop callbacks, the listeners of the name in registration order once
\* for every event in the queue.
C22_DrainKeepsTheQueue ==
  [][/\ Len(ent'[Subject].events) < Len(ent[Subject].events)
          => probe'.op = "Entity.clearEvents"
     /\ probe'.op = "Entity.update"
          => /\ SubSeq(ent'[Subject].events, 1, Len(ent[Subject].events))
                  = ent[Subject].events
             /\ probe'.threw = NoError /\ ~NotEmptyAtEntry /\ ~Asleep
                  => probe'.invoked
                       = loops[Subject]
                           \o Times(triggers[Subject]["hit"],
                                    Len(ent'[Subject].events))]_vars

\* update() has returned with an event in the queue, its listeners invoked.
C22_Witness ==
  /\ probe.op = "Entity.update" /\ probe.threw = NoError
  /\ ent[Subject].events # <<>>
  /\ Len(probe.invoked) = Len(loops[Subject])
       + Len(ent[Subject].events) * Len(triggers[Subject]["hit"])
  /\ Len(probe.invoked) > Len(loops[Subject])

\* The movement is on a step: not completed, not aborted, a current step.
Running ==
  /\ movement # NoMovement
  /\ ~Completed(movement, time)
  /\ ~movement.aborted
  /\ CurrentStepIndex(movement, time) # 0

\* C23: a constructed Movement holds its steps sorted by start frame, its
\* startFrame is the smallest start frame and its endFrame the largest end
\* frame of its steps.
C23_StartAndEndSpanTheSteps ==
  movement # NoMovement
    => /\ \A i \in 1..(Len(movement.steps) - 1) :
            movement.steps[i].startFrame <= movement.steps[i + 1].startFrame
       /\ \A i \in 1..Len(movement.steps) :
            /\ movement.startFrame <= movement.steps[i].startFrame
            /\ movement.endFrame >= movement.steps[i].endFrame
       /\ \E i \in 1..Len(movement.steps) :
            movement.startFrame = movement.steps[i].startFrame
       /\ \E i \in 1..Len(movement.steps) :
            movement.endFrame = movement.steps[i].endFrame

\* C24: update() of the entity a Movement was constructed for advances that
\* movement while it is on a step, so that the entity can detach it in the
\* tick its last step completes.
C24_OwnerAdvancesTheMovement ==
  [][probe'.op = "Entity.update" /\ Running /\ ~NotEmptyAtEntry /\ ~Asleep
       => "movement" \in Range(probe'.invoked)]_vars

\* C25: on a step, Movement.update returns, and returns true exactly when no
\* step starts after the engine's time.
C25_ReturnsWhetherStepsRemain ==
  [][probe'.op = "Movement.update" /\ Running
       => /\ probe'.threw = NoError
          /\ probe'.returned = <<FutureStepsIndices(movement, time) = <<>>>>]_vars

\* C26: Movement.update throws, and stages nothing, when the engine's time
\* has reached the movement's endFrame ("completed"), when the signal is
\* aborted ("aborted", unless completed), and when no step holds the engine's
\* time, as before startFrame ("not running", unless completed or aborted).
C26_UpdateRefusesOffStep ==
  [][probe'.op = "Movement.update"
       => /\ Completed(movement, time) \/ movement.aborted
               \/ time < movement.startFrame
               => ent' = ent /\ nextId' = nextId
          /\ Completed(movement, time)
               => probe'.threw = Cause("Movement is completed.")
          /\ movement.aborted /\ ~Completed(movement, time)
               => probe'.threw = Cause("Movement is aborted.")
          /\ time < movement.startFrame
               => probe'.threw \in {Cause("Movement is completed."),
                                    Cause("Movement is aborted."),
                                    Cause("Movement is not running.")}
          /\ time < movement.startFrame /\ ~movement.aborted
               /\ ~Completed(movement, time)
               => probe'.threw = Cause("Movement is not running.")]_vars

\* update() of an aborted movement that would otherwise be on a step threw
\* "aborted".
C26_Witness ==
  /\ probe.op = "Movement.update"
  /\ movement.aborted /\ ~Completed(movement, time)
  /\ CurrentStepIndex(movement, time) # 0
  /\ probe.threw = Cause("Movement is aborted.")

\* C27: on a step that lasts, Movement.update stages a location, the point
\* between the step's from and to at the fraction
\* (time - startFrame) / (endFrame - startFrame).
C27_StartRelativeFraction ==
  [][probe'.op = "Movement.update" /\ Running
       => LET step == movement.steps[CurrentStepIndex(movement, time)]
              span == step.endFrame - step.startFrame
          IN span > 0
               => /\ probe'.threw = NoError
                  /\ Len(ent'[Subject].fragments) > Len(ent[Subject].fragments)
                  /\ probe'.next # <<>>
                  /\ probe'.next[1].den # 0
                  /\ probe'.next[1].num * span
                       = (step.from * span
                            + (step.to - step.from) * (time - step.startFrame))
                         * probe'.next[1].den]_vars

\* C30: at every engine time each step of a Movement is in exactly one of
\* previousSteps, currentStep and futureSteps, and nextStep is the first of
\* futureSteps.
C30_ViewsPartitionTheSteps ==
  movement # NoMovement
    => /\ \A i \in 1..Len(movement.steps) :
            \/ /\ i \in Range(PreviousStepsIndices(movement, time))
               /\ i # CurrentStepIndex(movement, time)
               /\ i \notin Range(FutureStepsIndices(movement, time))
            \/ /\ i \notin Range(PreviousStepsIndices(movement, time))
               /\ i = CurrentStepIndex(movement, time)
               /\ i \notin Range(FutureStepsIndices(movement, time))
            \/ /\ i \notin Range(PreviousStepsIndices(movement, time))
               /\ i # CurrentStepIndex(movement, time)
               /\ i \in Range(FutureStepsIndices(movement, time))
       /\ NextStepIndex(movement, time)
            = IF FutureStepsIndices(movement, time) = <<>> THEN 0
              ELSE FutureStepsIndices(movement, time)[1]

\* C28: addEntity leaves the entity in the registry, removeEntity leaves it
\* out; neither throws, neither touches another entity, each leaves the
\* registry as it was when there is nothing to do, and the registry never
\* holds an entity twice.
C28_RegistryIsASet ==
  [][probe'.op \in {"Engine.addEntity", "Engine.removeEntity"}
       => /\ probe'.threw = NoError
          /\ (probe'.entity \in Range(registry'))
               = (probe'.op = "Engine.addEntity")
          /\ \A x \in Entities \ {probe'.entity} :
               (x \in Range(registry')) = (x \in Range(registry))
          /\ (probe'.entity \in Range(registry))
               = (probe'.op = "Engine.addEntity")
               => registry' = registry
          /\ \A i, j \in 1..Len(registry') :
               registry'[i] = registry'[j] => i = j]_vars

\* An entity the registry already held has been added again.
C28_Witness ==
  /\ probe.op = "Engine.addEntity" /\ probe.had
  /\ probe.entity \in Range(registry)

\* C29: an awake update() that finds bucket and queue empty invokes the loop
\* callbacks in the order of the Set, each once and before any listener;
\* when one of them throws, update() throws that same error and invokes
\* nothing after it.
C29_LoopsOncePerUpdate ==
  [][probe'.op = "Entity.update" /\ ~NotEmptyAtEntry /\ ~Asleep
       => LET n == Len(loops[Subject])
              called == Len(probe'.invoked)
              reached == IF called < n THEN called ELSE n
          IN /\ SubSeq(probe'.invoked, 1, reached)
                  = SubSeq(loops[Subject], 1, reached)
             /\ \A i \in (n + 1)..called :
                  probe'.invoked[i] \notin Range(loops[Subject])
             /\ probe'.threw = NoError => called >= n
             /\ called < n => probe'.threw # NoError
             /\ probe'.threw # NoError /\ called <= n
                  => /\ called > 0
                     /\ probe'.threw
                          \in {Cause("callback threw"),
                               Cause("ReferenceError: vector is not defined")}]_vars

\* update() has returned after invoking two loop callbacks, once each.
C29_Witness ==
  /\ probe.op = "Entity.update" /\ probe.threw = NoError
  /\ Len(loops[Subject]) > 1
  /\ SubSeq(probe.invoked, 1, Len(loops[Subject])) = loops[Subject]

\* The fragments of a set that a setter staged: those under a location or an
\* orientation key.
SetterStaged(fragments) ==
  {f \in fragments : f.key.field \in {"location", "orientation"}}

\* C31: every setter-staged fragment of a harvested set carries the engine's
\* time of the tick that staged and harvested it, which is also the time of
\* the value next() emits with it.
C31_HarvestCarriesTheTick ==
  \A c \in Calls :
    /\ \A f \in SetterStaged(call[c].fragments) : f.frame = time
    /\ call[c].outcome = "value"
         => /\ call[c].valueFragments = call[c].fragments
            /\ \A f \in SetterStaged(call[c].valueFragments) :
                 f.frame = call[c].valueTime

\* next() has emitted a tick after the first with a fragment setOrientation
\* staged in it.
C31_Witness ==
  \E c \in Calls :
    /\ call[c].outcome = "value"
    /\ call[c].valueTime > 0
    /\ \E f \in SetterStaged(call[c].valueFragments) :
         f.frame = call[c].valueTime

\* C32: a runTrigger call that returns has invoked every listener registered
\* for the name, in registration order; and a runTrigger call whose listeners
\* call no setter, whether it returns or throws, leaves the entity's fragment
\* bucket and its index by key exactly as they were.
C32_RunTriggerLeavesTheBucket ==
  [][probe'.op = "Entity.runTrigger"
       => /\ probe'.threw = NoError
               => probe'.invoked = triggers[Subject]["hit"]
          /\ probe'.effect \in {"nop", "throw"}
               => /\ ent'[Subject].fragments = ent[Subject].fragments
                  /\ ent'[Subject].fragmentsByKey = ent[Subject].fragmentsByKey]_vars

\* runTrigger has returned on an entity with a staged fragment, having
\* invoked both listeners.
C32_Witness ==
  /\ probe.op = "Entity.runTrigger" /\ probe.threw = NoError
  /\ probe.effect = "nop"
  /\ probe.invoked = triggers[Subject]["hit"] /\ Len(probe.invoked) > 1
  /\ ent[Subject].fragments # <<>>

\* The fraction r has the integer value n.
FractionIs(r, n) == r.den # 0 /\ r.num = n * r.den

\* C33: interpolate(a, b, t) leaves the arrays of a and b as they were; its
\* result is a when b has a's components, whatever t is, a when t = 0, b when
\* t = 1, and the midpoint when t = 1/2.
C33_InterpolateEndpoints ==
  [][probe'.op = "Vector3D.interpolate"
       => LET a == arrays["location"]
              b == arrays[probe'.held.array]
              t == probe'.t[1]
          IN /\ arrays' = arrays
             /\ \A i \in 1..3 :
                  /\ a[i] = b[i] => FractionIs(probe'.result[i], a[i])
                  /\ t.num = 0 => FractionIs(probe'.result[i], a[i])
                  /\ t.num = t.den => FractionIs(probe'.result[i], b[i])
                  /\ 2 * t.num = t.den
                       => 2 * probe'.result[i].num
                            = (a[i] + b[i]) * probe'.result[i].den]_vars

\* interpolate has been called with two vectors that differ and the factor 1:
\* the result has the components of the second.
C33_Witness ==
  /\ probe.op = "Vector3D.interpolate"
  /\ probe.t = <<[num |-> 1, den |-> 1]>>
  /\ arrays["location"] # arrays[probe.held.array]
  /\ \A i \in 1..3 : FractionIs(probe.result[i], arrays[probe.held.array][i])

\* C34: an event queued on an entity between ticks never makes the entity's
\* next update fail: no tick fails with the error of the event-queue check.
C34_QueuedEventNeverFailsUpdate ==
  \A c \in Calls : call[c].caught # Cause("Entity must not have events.")

\* C35: an Entity.update that has reached its event drain leaves it (returns
\* or throws), whatever its listeners queue.
C35_DrainTerminates == drain.active ~> ~drain.active

\* C36: a tick whose entity stage fails harvests nothing and clears nothing:
\* every fragment staged in it is in a bucket afterwards and no bucket or
\* queue has lost anything; and a bucket or a queue that holds something
\* between ticks keeps it, because the update of its entity fails the check at
\* its top (the tick of an entity updated with something in them fails on that
\* entity) and nothing else clears it.
C36_FailedTickLeavesTheBuckets ==
  [][/\ \A c \in Calls :
          call[c].pc = "engineAwait" /\ call'[c].failed # <<>>
            => /\ ~call'[c].committed /\ call'[c].fragments = {}
               /\ delivered' = delivered
               /\ \A id \in nextId..(nextId' - 1) :
                    \E e \in Entities :
                      \E f \in Range(ent'[e].fragments) : f.id = id
               /\ \A e \in Entities :
                    /\ Range(ent[e].fragments) \subseteq Range(ent'[e].fragments)
                    /\ Len(ent'[e].events) >= Len(ent[e].events)
     /\ \A c \in Calls :
          call[c].pc = "engineAwait" /\ call'[c].pc # "engineAwait"
            => \A e \in Range(call'[c].updated) :
                 ent[e].fragments # <<>> \/ ent[e].events # <<>>
                   => /\ call'[c].failed = <<e>>
                      /\ call'[c].caught
                           \in {Cause("Entity must not have fragments."),
                                Cause("Entity must not have events.")}
     /\ \A e \in Entities :
          /\ ent[e].fragments # <<>> => ent'[e].fragments = ent[e].fragments
          /\ ent[e].events # <<>> => ent'[e].events = ent[e].events]_vars

\* A tick has failed on one entity after another entity had staged a fragment
\* in it, which is still in that entity's bucket.
C36_Witness ==
  \E c \in Calls :
    /\ call[c].failed # <<>>
    /\ \E e \in Range(call[c].updated) :
         e \notin Range(call[c].failed) /\ ent[e].fragments # <<>>

C38_EngineBucketStaysEmpty ==
  /\ engineFragments = {}
  /\ \A c \in Calls :
       /\ call[c].engineErr # Cause("Engine must not have fragments.")
       /\ \A f \in call[c].fragments : f.key \in Keys
  /\ \A f \in delivered : f.key \in Keys

\* Engine.update (engine.ts) has succeeded in a tick that follows a delivered
\* harvest.
C38_Witness ==
  /\ engineKind = "engine.ts"
  /\ delivered # {}
  /\ \E c \in Calls : call[c].pc = "engineAwait" /\ call[c].engineErr = NoError

====
